---- MODULE Spec2Model ----
(***************************************************************************)
(* Model of GeminFlash2_5_OCR.py: run_gemini_file_workflow and             *)
(* create_dummy_file, with the Gemini provider and the local filesystem    *)
(* as nondeterministic collaborators (every call returns or raises).       *)
(***************************************************************************)
EXTENDS Integers, Sequences, FiniteSets, TLC

VARIABLES pc, client, disk, disk0, uploaded_file, file_resource_name,
          response, calls, remote, out, escaped, exitCode

vars == <<pc, client, disk, disk0, uploaded_file, file_resource_name,
          response, calls, remote, out, escaped, exitCode>>

\* ---- bounds of the environment ----
\* number of distinct resource names the provider may hand out
NumNames == 2
Names == 1..NumNames
\* contents an already existing local file may have
Contents == {"imgA", "imgB"}

\* ---- program constants ----
IMAGE_FILE_PATH == "WalmartReceipt.png"
DUMMY_TEXT == "This is a simple text file representing a diagram."
\* paths of the local filesystem: the configured one and an unrelated one
Paths == {IMAGE_FILE_PATH, "other.png"}

\* Python's None and an optional value, as a set of at most one element
None == {}
Some(x) == {x}

\* exceptions a provider call can raise: the two classes the handlers tell apart
Raised == {"APIError", "Exception"}
Outcomes == {"ok"} \cup Raised

\* one provider call, as recorded in the history of the run
\* (file: the local path sent, content: the bytes read from it, name: the
\* resource name passed or returned, res: "ok" or the exception raised)
Call(op, file, content, name, res) ==
    [op |-> op, file |-> file, content |-> content, name |-> name, res |-> res]

\* lines 102-105: the message each handler of the workflow's try block prints
Handler(e) == IF e = "APIError" THEN "api_error" ELSE "unexpected_error"

\* Variant of Raise in which only APIError has a handler: any other
\* exception stays pending through the finally block.
Raise_OnlyAPIError(printed, e) ==
    /\ out' = out \o printed \o (IF e = "APIError" THEN <<Handler(e)>> ELSE <<>>)
    /\ escaped' = IF e = "APIError" THEN escaped ELSE Some(e)
    /\ pc' = "finally"

\* lines 102-106: an exception e raised in the try block, after the block
\* printed `printed`: the matching handler prints, control goes to finally
Raise(printed, e) ==
    /\ out' = out \o printed \o <<Handler(e)>>
    /\ UNCHANGED escaped
    /\ pc' = "finally"

Init ==
    /\ pc = "init_client"
    /\ client = None
    /\ disk \in [Paths -> {None} \cup {Some(c) : c \in Contents}]
    /\ disk0 = disk
    /\ uploaded_file = None
    /\ file_resource_name = None
    /\ response = None
    /\ calls = <<>>
    /\ remote = {}
    /\ out = <<>>
    /\ escaped = None
    /\ exitCode = None

\* Variant of InitClient whose handler lacks the return statement.
InitClient_NoReturn ==
    /\ pc = "init_client"
    /\ \E ok \in BOOLEAN :
         IF ok
         THEN /\ client' = Some("client")
              /\ out' = Append(out, "client_initialized")
         ELSE /\ client' = None
              /\ out' = Append(out, "init_error")
    /\ pc' = "create_dummy_file"
    /\ UNCHANGED <<disk, disk0, uploaded_file, file_resource_name, response,
                   calls, remote, escaped, exitCode>>

\* lines 39-46: genai.Client(api_key=API_KEY) returns or raises
InitClient ==
    /\ pc = "init_client"
    /\ \E ok \in BOOLEAN :
         IF ok
         THEN /\ client' = Some("client")
              /\ out' = Append(out, "client_initialized")
              /\ pc' = "create_dummy_file"
         ELSE /\ client' = None
              /\ out' = Append(out, "init_error")
              /\ pc' = "returned"
    /\ UNCHANGED <<disk, disk0, uploaded_file, file_resource_name, response,
                   calls, remote, escaped, exitCode>>

\* lines 22-29: open(file_path, 'w') and f.write(...); w tells which of the
\* two raises IOError, if any, and reraise whether the handler re-raises
WriteDummy(file_path, w, reraise) ==
    CASE w = "ok" ->
           /\ disk' = [disk EXCEPT ![file_path] = Some(DUMMY_TEXT)]
           /\ out' = out \o <<"warn_not_found", "created_dummy">>
           /\ UNCHANGED escaped
           /\ pc' = "upload"
      [] w = "open_raises" ->
           /\ UNCHANGED disk
           /\ out' = out \o <<"warn_not_found", "error_creating_dummy">>
           /\ escaped' = IF reraise THEN Some("IOError") ELSE escaped
           /\ pc' = IF reraise THEN "raised" ELSE "upload"
      [] w = "write_raises" ->
           /\ disk' = [disk EXCEPT ![file_path] = Some("")]
           /\ out' = out \o <<"warn_not_found", "error_creating_dummy">>
           /\ escaped' = IF reraise THEN Some("IOError") ELSE escaped
           /\ pc' = IF reraise THEN "raised" ELSE "upload"

WriteOutcomes == {"ok", "open_raises", "write_raises"}

\* Variant of create_dummy_file whose IOError handler lacks the raise.
create_dummy_file_Swallow(file_path) ==
    IF disk[file_path] # None
    THEN /\ out' = Append(out, "found_file")
         /\ UNCHANGED <<disk, escaped>>
         /\ pc' = "upload"
    ELSE \E w \in WriteOutcomes : WriteDummy(file_path, w, FALSE)

\* Variant of create_dummy_file without the existence test.
create_dummy_file_AlwaysWrite(file_path) ==
    \E w \in WriteOutcomes : WriteDummy(file_path, w, TRUE)

\* lines 18-31, called from line 49 (outside any try); line 51 follows
create_dummy_file(file_path) ==
    IF disk[file_path] # None
    THEN /\ out' = Append(out, "found_file")
         /\ UNCHANGED <<disk, escaped>>
         /\ pc' = "upload"
    ELSE \E w \in WriteOutcomes : WriteDummy(file_path, w, TRUE)

\* lines 48-51
CreateDummyFile ==
    /\ pc = "create_dummy_file"
    /\ create_dummy_file(IMAGE_FILE_PATH)
    /\ UNCHANGED <<client, disk0, uploaded_file, file_resource_name, response,
                   calls, remote, exitCode>>

\* lines 52-65: client.files.upload(file=IMAGE_FILE_PATH)
Upload ==
    /\ pc = "upload"
    /\ \E r \in Outcomes :
         IF r = "ok"
         THEN \E n \in Names \ remote :
                /\ uploaded_file' = Some([name |-> n])
                /\ file_resource_name' = Some(n)
                /\ remote' = remote \cup {n}
                /\ calls' = Append(calls, Call("files.upload", Some(IMAGE_FILE_PATH),
                                               disk[IMAGE_FILE_PATH], Some(n), r))
                /\ out' = out \o <<"step2", "upload_successful">>
                /\ UNCHANGED escaped
                /\ pc' = "models_get"
         ELSE /\ calls' = Append(calls, Call("files.upload", Some(IMAGE_FILE_PATH),
                                             disk[IMAGE_FILE_PATH], None, r))
              /\ Raise(<<"step2">>, r)
              /\ UNCHANGED <<uploaded_file, file_resource_name, remote>>
    /\ UNCHANGED <<client, disk, disk0, response, exitCode>>

\* Variant of ModelsGet in which a failed lookup does not stop the workflow.
ModelsGet_Swallow ==
    /\ pc = "models_get"
    /\ \E r \in Outcomes :
         /\ calls' = Append(calls, Call("models.get", None, None, None, r))
         /\ out' = Append(out, "step3")
         /\ UNCHANGED escaped
         /\ pc' = "generate"
    /\ UNCHANGED <<client, disk, disk0, uploaded_file, file_resource_name,
                   response, remote, exitCode>>

\* lines 68-71: client.models.get(model="gemini-2.5-flash"); the result is unused
ModelsGet ==
    /\ pc = "models_get"
    /\ \E r \in Outcomes :
         /\ calls' = Append(calls, Call("models.get", None, None, None, r))
         /\ IF r = "ok"
            THEN /\ out' = Append(out, "step3")
                 /\ UNCHANGED escaped
                 /\ pc' = "generate"
            ELSE Raise(<<"step3">>, r)
    /\ UNCHANGED <<client, disk, disk0, uploaded_file, file_resource_name,
                   response, remote, exitCode>>

\* Variant of Generate in which a failed generation is logged and the
\* workflow goes on to the retrieval step.
Generate_ContinueOnError ==
    /\ pc = "generate"
    /\ \E r \in Outcomes :
         /\ calls' = Append(calls, Call("models.generate_content", None, None,
                                        {f.name : f \in uploaded_file}, r))
         /\ UNCHANGED escaped
         /\ IF r = "ok"
            THEN /\ response' = Some("response")
                 /\ UNCHANGED out
                 /\ pc' = "response_text"
            ELSE /\ UNCHANGED response
                 /\ out' = Append(out, Handler(r))
                 /\ pc' = "files_get"
    /\ UNCHANGED <<client, disk, disk0, uploaded_file, file_resource_name,
                   remote, exitCode>>

\* lines 74-84: client.models.generate_content(model=MODEL_NAME,
\* contents=[instruction, uploaded_file])
Generate ==
    /\ pc = "generate"
    /\ \E r \in Outcomes :
         /\ calls' = Append(calls, Call("models.generate_content", None, None,
                                        {f.name : f \in uploaded_file}, r))
         /\ IF r = "ok"
            THEN /\ response' = Some("response")
                 /\ UNCHANGED <<out, escaped>>
                 /\ pc' = "response_text"
            ELSE /\ UNCHANGED response
                 /\ Raise(<<>>, r)
    /\ UNCHANGED <<client, disk, disk0, uploaded_file, file_resource_name,
                   remote, exitCode>>

\* lines 86-89: the statements between generation and retrieval; the
\* response.text accessor of the client library returns or raises
ResponseText ==
    /\ pc = "response_text"
    /\ \E r \in {"ok", "Exception"} :
         IF r = "ok"
         THEN /\ out' = out \o <<"generation_successful", "model_response">>
              /\ UNCHANGED escaped
              /\ pc' = "files_get"
         ELSE Raise(<<"generation_successful">>, r)
    /\ UNCHANGED <<client, disk, disk0, uploaded_file, file_resource_name,
                   response, calls, remote, exitCode>>

\* lines 92-100: client.files.get(name=file_resource_name)
FilesGet ==
    /\ pc = "files_get"
    /\ \E r \in Outcomes :
         /\ calls' = Append(calls, Call("files.get", None, None, file_resource_name, r))
         /\ IF r = "ok"
            THEN /\ out' = out \o <<"step4", "retrieval_successful">>
                 /\ UNCHANGED escaped
                 /\ pc' = "finally"
            ELSE Raise(<<"step4">>, r)
    /\ UNCHANGED <<client, disk, disk0, uploaded_file, file_resource_name,
                   response, remote, exitCode>>

\* how the finally block is left: normally, or with the pending exception
Leave == IF escaped = None THEN "returned" ELSE "raised"

\* Variant of DeleteRaised without the inner handler: the error propagates.
DeleteRaised_Propagates(e) ==
    /\ out' = Append(out, "step5")
    /\ escaped' = Some(e)
    /\ pc' = "raised"

\* lines 113-114: the handler of the delete call prints a warning
DeleteRaised(e) ==
    /\ out' = out \o <<"step5", "warn_could_not_delete">>
    /\ UNCHANGED escaped
    /\ pc' = Leave

\* lines 106-114: the finally block, entered with truth value `handle` of
\* uploaded_file; client.files.delete(name=uploaded_file.name)
CleanupBody(handle) ==
    /\ pc = "finally"
    /\ IF handle
       THEN \E r \in Outcomes :
              /\ calls' = Append(calls, Call("files.delete", None, None,
                                             {f.name : f \in uploaded_file}, r))
              /\ IF r = "ok"
                 THEN /\ remote' = remote \ {f.name : f \in uploaded_file}
                      /\ out' = out \o <<"step5", "deleted">>
                      /\ UNCHANGED escaped
                      /\ pc' = Leave
                 ELSE /\ UNCHANGED remote
                      /\ DeleteRaised(r)
       ELSE /\ UNCHANGED <<calls, remote, out, escaped>>
            /\ pc' = Leave
    /\ UNCHANGED <<client, disk, disk0, uploaded_file, file_resource_name,
                   response, exitCode>>

\* Variant of Cleanup in which the delete is the last statement of the try
\* block: it is skipped when the block was left by an exception.
Cleanup_InsideTry ==
    CleanupBody(uploaded_file # None
                /\ out[Len(out)] \notin {"api_error", "unexpected_error"})

\* Variant of Cleanup without the `if uploaded_file` test.
Cleanup_Unguarded == CleanupBody(TRUE)

\* lines 106-114, with the test of line 108
Cleanup == CleanupBody(uploaded_file # None)

\* lines 117-118: the interpreter ends the process once the call returns
\* (status 0) or an exception reaches top level (traceback, status 1)
ProcessExit ==
    /\ pc \in {"returned", "raised"}
    /\ exitCode' = Some(IF escaped = None THEN 0 ELSE 1)
    /\ pc' = "exited"
    /\ UNCHANGED <<client, disk, disk0, uploaded_file, file_resource_name,
                   response, calls, remote, out, escaped>>

Next ==
    \/ InitClient
    \/ CreateDummyFile
    \/ Upload
    \/ ModelsGet
    \/ Generate
    \/ ResponseText
    \/ FilesGet
    \/ Cleanup
    \/ ProcessExit

Spec == Init /\ [][Next]_vars

\* every blocking call returns or raises, and the sequential flow goes on
FairSpec == Spec /\ WF_vars(Next)

(***************************************************************************)
(* History operators used by the properties                                *)
(***************************************************************************)
Idx(op) == {i \in DOMAIN calls : calls[i].op = op}
OkIdx(op) == {i \in Idx(op) : calls[i].res = "ok"}
FailedIdx(op) == {i \in Idx(op) : calls[i].res # "ok"}
Printed(m) == \E i \in DOMAIN out : out[i] = m
Terminated == pc \in {"returned", "raised", "exited"}
ClientFailed == pc # "init_client" /\ client = None
WriteFailed == Printed("error_creating_dummy")
PlaceholderWritten ==
    disk0[IMAGE_FILE_PATH] = None /\ disk[IMAGE_FILE_PATH] = Some(DUMMY_TEXT)
\* the response.text accessor raised (no provider call is involved)
TextRaised ==
    \E i \in DOMAIN out : /\ i < Len(out)
                          /\ out[i] = "generation_successful"
                          /\ out[i + 1] = "unexpected_error"

\* C1: whenever upload returned a handle, delete is called exactly once by
\* the end of the run, after the upload and with the name upload returned,
\* whatever happened in between; delete is never called twice.
C1_DeleteExactlyOnce ==
    /\ Cardinality(Idx("files.delete")) <= 1
    /\ \A i \in OkIdx("files.upload") :
         Terminated =>
           \E j \in Idx("files.delete") :
              /\ Idx("files.delete") = {j}
              /\ j > i
              /\ calls[j].name = calls[i].name

\* a run in which the statements between generation and retrieval raised
\* and the resource was still deleted
C1_Witness ==
    /\ pc = "exited"
    /\ TextRaised
    /\ OkIdx("files.upload") # {}
    /\ Cardinality(Idx("files.delete")) = 1

\* C2: when client construction raises, the run prints the initialization
\* error and returns with no provider call at all.
C2_ClientFailureNoCalls ==
    ClientFailed =>
      /\ calls = <<>>
      /\ remote = {}
      /\ out = <<"init_error">>
      /\ escaped = None
      /\ pc \in {"returned", "exited"}
      /\ disk = disk0

C2_Witness == ClientFailed /\ pc = "exited" /\ exitCode = Some(0)

\* C3: a delete call that raises is the last call of the run, is the only
\* delete call, is followed by a warning, and the function returns normally.
C3_DeleteFailureOnlyWarns ==
    \A j \in FailedIdx("files.delete") :
       /\ j = Len(calls)
       /\ Idx("files.delete") = {j}
       /\ out[Len(out)] = "warn_could_not_delete"
       /\ escaped = None
       /\ pc \in {"returned", "exited"}
       /\ pc = "exited" => exitCode = Some(0)

C3_Witness == FailedIdx("files.delete") # {} /\ pc = "exited"

\* C4 as stated: no exception ever escapes the workflow and the exit code is 0.
C4_Original ==
    /\ escaped = None
    /\ pc # "raised"
    /\ pc = "exited" => exitCode = Some(0)

\* C4 amended: every failure prints a message; an exception escapes the
\* workflow exactly when the placeholder write failed (exit code 1), and
\* every other run returns normally with exit code 0.
C4_ErrorPathsAmended ==
    /\ (escaped # None) <=> WriteFailed
    /\ WriteFailed => escaped = Some("IOError") /\ pc \in {"raised", "exited"}
    /\ pc = "raised" => WriteFailed
    /\ pc = "exited" => exitCode = Some(IF WriteFailed THEN 1 ELSE 0)
    /\ ClientFailed => Printed("init_error")
    /\ \A i \in DOMAIN calls :
         calls[i].res # "ok" =>
           IF calls[i].op = "files.delete"
           THEN Printed("warn_could_not_delete")
           ELSE Printed(Handler(calls[i].res))

\* a run with a failed generation call that ended with exit code 0
C4_Witness ==
    /\ pc = "exited"
    /\ exitCode = Some(0)
    /\ FailedIdx("models.generate_content") # {}

\* C5: when the path is absent and the placeholder write fails, the IOError
\* leaves the workflow and no provider call is made, no resource exists.
C5_WriteFailureAborts ==
    WriteFailed =>
      /\ disk0[IMAGE_FILE_PATH] = None
      /\ escaped = Some("IOError")
      /\ pc \in {"raised", "exited"}
      /\ calls = <<>>
      /\ remote = {}
      /\ uploaded_file = None
      /\ pc = "exited" => exitCode = Some(1)

C5_Witness == WriteFailed /\ pc = "exited" /\ disk[IMAGE_FILE_PATH] = None

\* The parts of C6 other than the if-and-only-if: nothing is written before
\* the check, every upload is made on the configured path with the content
\* then on disk (the placeholder if the path was absent, else the original
\* content), an existing file is never changed, no other path is touched.
C6_Frame ==
    /\ pc \in {"init_client", "create_dummy_file"} => disk = disk0
    /\ \A i \in Idx("files.upload") :
         /\ calls[i].file = Some(IMAGE_FILE_PATH)
         /\ calls[i].content = disk[IMAGE_FILE_PATH]
         /\ calls[i].content = IF disk0[IMAGE_FILE_PATH] = None
                               THEN Some(DUMMY_TEXT)
                               ELSE disk0[IMAGE_FILE_PATH]
    /\ disk0[IMAGE_FILE_PATH] # None => disk = disk0
    /\ \A q \in Paths \ {IMAGE_FILE_PATH} : disk[q] = disk0[q]

\* C6 as stated: once the client is constructed and the check is done, the
\* placeholder is on disk if and only if the path did not exist.
C6_Original ==
    /\ C6_Frame
    /\ (client # None /\ pc \notin {"init_client", "create_dummy_file"}) =>
         (PlaceholderWritten <=> disk0[IMAGE_FILE_PATH] = None)

\* C6 amended: the placeholder is on disk if and only if the path did not
\* exist and the write did not fail; the rest of the claim as stated.
C6_PlaceholderAmended ==
    /\ C6_Frame
    /\ (client # None /\ pc \notin {"init_client", "create_dummy_file"}) =>
         (PlaceholderWritten <=> (disk0[IMAGE_FILE_PATH] = None /\ ~WriteFailed))
    /\ client = None => disk = disk0

\* a run that uploaded the placeholder it had just written
C6_Witness ==
    /\ disk0[IMAGE_FILE_PATH] = None
    /\ PlaceholderWritten
    /\ Idx("files.upload") # {}

\* position of each provider call in the workflow
StepRank(op) ==
    CASE op = "files.upload" -> 1
      [] op = "models.get" -> 2
      [] op = "models.generate_content" -> 3
      [] op = "files.get" -> 4
      [] op = "files.delete" -> 5

\* C7: provider calls are made in workflow order, each at most once;
\* generation only after a successful upload, retrieval only after a
\* successful generation; a failed call is followed by nothing but the
\* delete; the delete is the last call.
C7_StepOrder ==
    /\ \A i, j \in DOMAIN calls :
         i < j => StepRank(calls[i].op) < StepRank(calls[j].op)
    /\ \A i \in Idx("models.generate_content") :
         \E j \in OkIdx("files.upload") : j < i
    /\ \A i \in Idx("files.get") :
         \E j \in OkIdx("models.generate_content") : j < i
    /\ \A i \in DOMAIN calls :
         (calls[i].res # "ok" /\ i < Len(calls)) =>
            /\ i + 1 = Len(calls)
            /\ calls[i + 1].op = "files.delete"
    /\ \A i \in Idx("files.delete") : i = Len(calls)
    /\ TextRaised => Idx("files.get") = {}

\* a run whose generation failed and went straight to the delete
C7_Witness ==
    /\ pc = "exited"
    /\ FailedIdx("models.generate_content") # {}
    /\ Idx("files.delete") # {}

\* C8: when the upload call raises, the handler prints, the handle stays
\* unset, no other provider call is made and the function returns normally.
C8_UploadFailure ==
    \A i \in FailedIdx("files.upload") :
       /\ Len(calls) = 1
       /\ uploaded_file = None
       /\ file_resource_name = None
       /\ remote = {}
       /\ out[Len(out)] = Handler(calls[i].res)
       /\ escaped = None
       /\ pc \in {"finally", "returned", "exited"}
       /\ pc = "exited" => exitCode = Some(0)

C8_Witness == FailedIdx("files.upload") # {} /\ pc = "exited"

FourEndpoints ==
    {"files.upload", "models.generate_content", "files.get", "files.delete"}

\* C9 as stated: only the four endpoints are called, the call after a
\* successful upload is the generation, and generation is attempted in
\* every run where upload succeeded.
C9_Original ==
    /\ \A i \in DOMAIN calls : calls[i].op \in FourEndpoints
    /\ \A i \in OkIdx("files.upload") :
         i < Len(calls) => calls[i + 1].op = "models.generate_content"
    /\ (Terminated /\ OkIdx("files.upload") # {}) =>
         Idx("models.generate_content") # {}

\* C9 amended: the calls are the four endpoints plus the model lookup; the
\* call after a successful upload is the model lookup, the call after a
\* successful lookup is the generation, and generation is attempted exactly
\* in the runs where both upload and lookup succeeded.
C9_EndpointsAmended ==
    /\ \A i \in DOMAIN calls : calls[i].op \in FourEndpoints \cup {"models.get"}
    /\ \A i \in OkIdx("files.upload") :
         i < Len(calls) => calls[i + 1].op = "models.get"
    /\ \A i \in OkIdx("models.get") :
         i < Len(calls) => calls[i + 1].op = "models.generate_content"
    /\ \A i \in Idx("models.generate_content") :
         i > 1 /\ calls[i - 1].op = "models.get" /\ calls[i - 1].res = "ok"
    /\ (Terminated /\ OkIdx("files.upload") # {} /\ OkIdx("models.get") # {}) =>
         Idx("models.generate_content") # {}

\* a run whose model lookup failed after a successful upload
C9_Witness ==
    /\ pc = "exited"
    /\ OkIdx("files.upload") # {}
    /\ FailedIdx("models.get") # {}
    /\ Idx("models.generate_content") = {}

\* state of the remote file resource, read off the history of the run
ResState ==
    IF OkIdx("files.delete") # {} THEN "DELETED"
    ELSE IF Idx("files.delete") # {} THEN "DELETE_FAILED"
    ELSE IF OkIdx("files.get") # {} THEN "RETRIEVED"
    ELSE IF Idx("models.generate_content") # {} THEN "GENERATION_ATTEMPTED"
    ELSE IF OkIdx("files.upload") # {} THEN "UPLOADED"
    ELSE "NONE"

ResRank(s) ==
    CASE s = "NONE" -> 0
      [] s = "UPLOADED" -> 1
      [] s = "GENERATION_ATTEMPTED" -> 2
      [] s = "RETRIEVED" -> 3
      [] s = "DELETED" -> 4
      [] s = "DELETE_FAILED" -> 4

ResTerminal == {"DELETED", "DELETE_FAILED"}

\* one step of the resource: it stays, or moves forward along the chain;
\* NONE is left only for UPLOADED; a terminal state is never left, no call
\* follows it and the only step left is the end of the process
ResStep ==
    /\ ResState' # ResState =>
         /\ ResRank(ResState') > ResRank(ResState)
         /\ ResState = "NONE" => ResState' = "UPLOADED"
    /\ ResState \in ResTerminal =>
         /\ ResState' = ResState
         /\ calls' = calls
         /\ pc \in {"returned", "exited"}
         /\ pc' = "exited"

\* C10: the resource state only moves forward along NONE, UPLOADED,
\* GENERATION_ATTEMPTED, RETRIEVED, DELETED or DELETE_FAILED; once UPLOADED
\* it eventually reaches DELETED or DELETE_FAILED; those two are terminal.
C10_ResourceLifecycle ==
    /\ [][ResStep]_vars
    /\ (ResState = "UPLOADED") ~> (ResState \in ResTerminal)
    /\ [](ResState \in ResTerminal => [](ResState \in ResTerminal))

C10_Witness == ResState = "DELETE_FAILED" /\ pc = "exited" /\ OkIdx("files.get") # {}

====
